---- MODULE Spec2Model ----
(***************************************************************************)
(* Model of ContainerBuilderImpl (libcontainer/src/container/              *)
(* builder_impl.rs): create(), run_container() and cleanup_container().    *)
(* The builder runs synchronously; pc is the position of the single        *)
(* create() call, one action per statement that can fail or has an         *)
(* externally visible effect.  log records every call made to a            *)
(* collaborator or to the operating system, with its outcome.              *)
(***************************************************************************)
EXTENDS Integers, Sequences, FiniteSets, TLC

\* ---------------------------------------------------------------- bounds
MaxPid == 11
MaxOomAdj == 1
MaxNamespaces == 1
MaxHooks == 1

\* ------------------------------------------------- Option<T> and Result<T,E>
None == <<>>
Some(x) == <<x>>
IsSome(o) == Len(o) = 1
Unwrap(o) == o[1]
Ok(v) == [tag |-> "Ok", val |-> v]
Err(e) == [tag |-> "Err", val |-> e]

\* ------------------------------------------------------------ input domains
Pids == (MaxPid - 1)..MaxPid
OomAdjValues == {0 - MaxOomAdj, 0, MaxOomAdj}
ContainerTypes == {"InitContainer", "TenantContainer"}
ContainerId == "c1"
NotifyPath == "notify.sock"
PidFilePath == "container.pid"
\* what a pid file left at that path by an earlier run holds
StalePidFile == <<"O", "L", "D">>
Euid == 0

\* oci_spec::runtime::Linux: namespaces is Option<Vec<_>> (its length is
\* kept), cgroups_path is Option<PathBuf>
LinuxSections ==
    [namespaces : {None, Some(0), Some(MaxNamespaces)},
     cgroups_path : {None, Some(<<"custom">>)}]
ProcessSections == [oom_score_adj : {None} \cup {Some(v) : v \in OomAdjValues}]
HooksSections == [create_runtime : {None, Some(MaxHooks)}]
Specs ==
    [linux : {None} \cup {Some(l) : l \in LinuxSections},
     process : {None} \cup {Some(p) : p \in ProcessSections},
     hooks : {None} \cup {Some(h) : h \in HooksSections}]

\* the Container record as the builder receives it: no pid, no creator yet
NewContainer ==
    [id |-> ContainerId, status |-> "Creating", creator |-> None,
     pid |-> None, clean_up_intel_rdt_subdirectory |-> None]

Builders ==
    [container_type : ContainerTypes,
     use_systemd : BOOLEAN,
     container_id : {ContainerId},
     spec : Specs,
     pid_file : {None, Some(PidFilePath)},
     user_ns_config : {None, Some("userns")},
     notify_path : {NotifyPath},
     container : {None, Some(NewContainer)}]

\* ------------------------------------------------------------ pure helpers
DigitChars == <<"0", "1", "2", "3", "4", "5", "6", "7", "8", "9">>

\* variant: the digits are emitted least significant first
RECURSIVE Digits_reversed(_)
Digits_reversed(n) ==
    IF n < 10 THEN <<DigitChars[n + 1]>>
    ELSE <<DigitChars[(n % 10) + 1]>> \o Digits_reversed(n \div 10)

RECURSIVE Digits(_)
Digits(n) ==
    IF n < 10 THEN <<DigitChars[n + 1]>>
    ELSE Append(Digits(n \div 10), DigitChars[(n % 10) + 1])

\* i32::to_string / format!("{}")
to_string(i) == IF i < 0 THEN <<"-">> \o Digits(0 - i) ELSE Digits(i)

\* utils::get_cgroup_path
get_cgroup_path(cgroups_path, container_id) ==
    IF IsSome(cgroups_path) THEN Unwrap(cgroups_path)
    ELSE <<":youki:", container_id>>

\* the CgroupConfig literal of run_container
run_cgroup_config(b) ==
    [cgroup_path |-> get_cgroup_path(Unwrap(b.spec.linux).cgroups_path, b.container_id),
     systemd_cgroup |-> b.use_systemd \/ IsSome(b.user_ns_config),
     container_name |-> b.container_id]

\* variant: the rollback forgets that a user namespace forces systemd cgroups
cleanup_cgroup_config_use_systemd_only(b) ==
    [cgroup_path |-> get_cgroup_path(Unwrap(b.spec.linux).cgroups_path, b.container_id),
     systemd_cgroup |-> b.use_systemd,
     container_name |-> b.container_id]

\* the CgroupConfig literal of cleanup_container
cleanup_cgroup_config(b) ==
    [cgroup_path |-> get_cgroup_path(Unwrap(b.spec.linux).cgroups_path, b.container_id),
     systemd_cgroup |-> b.use_systemd \/ IsSome(b.user_ns_config),
     container_name |-> b.container_id]

\* variant: every container type is treated as an init container
is_init_container_any_type(b) == b.container_type \in ContainerTypes

is_init_container(b) == b.container_type = "InitContainer"

\* variant: the pid is set and saved without the other three fields
container_update_pid_only(c, init_pid, need_to_clean_up_intel_rdt_dir) ==
    [c EXCEPT !.pid = Some(init_pid)]

\* the setter chain of run_container, before save()
container_update(c, init_pid, need_to_clean_up_intel_rdt_dir) ==
    [c EXCEPT !.status = "Created",
              !.creator = Some(Euid),
              !.pid = Some(init_pid),
              !.clean_up_intel_rdt_subdirectory = Some(need_to_clean_up_intel_rdt_dir)]

\* the condition guarding prctl::set_dumpable(false)
dumpable_guard(linux) == IsSome(linux.namespaces)

\* error values: kind is the LibcontainerError variant, detail its payload
Error(kind, detail) == [kind |-> kind, detail |-> detail]

\* CreateContainerError::new(outer, cleanup_err)
CreateContainerError(outer, cleanup_err) == [outer |-> outer, cleanup |-> cleanup_err]

\* ------------------------------------------------------------------- state
VARIABLES
    builder,          \* the builder's configuration (self), never changed
    container,        \* self.container, the in-memory Container record
    pc,               \* position of the create() call
    log,              \* calls made so far: <<[op, ok]>>
    notify_listener,  \* local of run_container
    container_args,   \* the bundle handed to the Process Launcher
    launched,         \* (init_pid, need_to_clean_up_intel_rdt_dir)
    run_result,       \* what run_container returned
    cmanager,         \* local of cleanup_container: the manager's CgroupConfig
    errors,           \* local Vec of cleanup_container
    cleanup_result,   \* what cleanup_container returned
    result,           \* what create() returned
    pid_file,         \* content of the file at self.pid_file, None when absent
    pid_file_before,  \* its content when create() was called
    oom_score_adj,    \* content written to /proc/self/oom_score_adj
    dumpable,         \* the process's dumpable attribute
    saved,            \* the persisted Container record
    root_exists,      \* container.root.exists()
    cgroup_exists,    \* the container's cgroup exists
    resctrl_exists    \* the resctrl subdirectory of the container exists

vars == <<builder, container, pc, log, notify_listener, container_args, launched,
          run_result, cmanager, errors, cleanup_result, result, pid_file, pid_file_before,
          oom_score_adj, dumpable, saved, root_exists, cgroup_exists, resctrl_exists>>

locals == <<notify_listener, container_args, launched, run_result, cmanager, errors,
            cleanup_result, result>>
os == <<pid_file, oom_score_adj, dumpable, saved, root_exists, cgroup_exists,
        resctrl_exists>>

Event(op, ok) == [op |-> op, ok |-> ok]
Logged(op) == \E i \in 1..Len(log) : log[i].op = op
LoggedOk(op) == \E i \in 1..Len(log) : log[i].op = op /\ log[i].ok
LoggedFail(op) == \E i \in 1..Len(log) : log[i].op = op /\ ~log[i].ok
Count(op) == Cardinality({i \in 1..Len(log) : log[i].op = op})

Init ==
    /\ builder \in Builders
    /\ container = builder.container
    /\ pc = "create"
    /\ log = <<>>
    /\ notify_listener = None
    /\ container_args = None
    /\ launched = None
    /\ run_result = None
    /\ cmanager = None
    /\ errors = <<>>
    /\ cleanup_result = None
    /\ result = None
    /\ pid_file \in (IF IsSome(builder.pid_file) THEN {None, Some(StalePidFile)}
                                                  ELSE {None})
    /\ pid_file_before = pid_file
    /\ oom_score_adj = None
    /\ dumpable = TRUE
    /\ saved = builder.container
    /\ root_exists \in (IF IsSome(builder.container) THEN BOOLEAN ELSE {FALSE})
    /\ cgroup_exists = ~is_init_container(builder)
    /\ resctrl_exists = FALSE

\* variant: the notify listener is created before the process section is checked
run_container_order_notify_before_process ==
    <<"run_container_linux", "run_container_notify", "run_container_process",
      "run_container_oom", "run_container_dumpable", "run_container_launch",
      "run_container_pid_file", "run_container_save", "run_container_hooks">>

\* variant: the process is made non-dumpable before the OOM score is written
run_container_order_dumpable_before_oom ==
    <<"run_container_linux", "run_container_process", "run_container_notify",
      "run_container_dumpable", "run_container_oom", "run_container_launch",
      "run_container_pid_file", "run_container_save", "run_container_hooks">>

\* variant: the notify listener is created only right before the launcher call
run_container_order_notify_after_dumpable ==
    <<"run_container_linux", "run_container_process", "run_container_oom",
      "run_container_dumpable", "run_container_notify", "run_container_launch",
      "run_container_pid_file", "run_container_save", "run_container_hooks">>

\* the order of the statements of run_container
run_container_order ==
    <<"run_container_linux", "run_container_process", "run_container_notify",
      "run_container_oom", "run_container_dumpable", "run_container_launch",
      "run_container_pid_file", "run_container_save", "run_container_hooks">>

\* the statement that follows step in run_container
After(step) ==
    LET i == CHOOSE k \in 1..Len(run_container_order) : run_container_order[k] = step
    IN run_container_order[i + 1]

\* run_container returns Err(e): control goes back to the match in create()
Fail(e) ==
    /\ run_result' = Some(Err(e))
    /\ pc' = "create_match"

\* create(): the call of run_container
create ==
    /\ pc = "create"
    /\ pc' = run_container_order[1]
    /\ UNCHANGED <<builder, pid_file_before, container, log, locals, os>>

\* run_container: the Linux section is required; cgroup_config is derived
run_container_linux ==
    /\ pc = "run_container_linux"
    /\ IF IsSome(builder.spec.linux)
       THEN /\ pc' = After("run_container_linux")
            /\ UNCHANGED run_result
       ELSE Fail(Error("MissingSpecError", <<"Linux">>))
    /\ UNCHANGED <<builder, pid_file_before,
                   cmanager, container, log, notify_listener, container_args, launched,
                   errors, cleanup_result, result, os>>

\* run_container: the process section is required
run_container_process ==
    /\ pc = "run_container_process"
    /\ IF IsSome(builder.spec.process)
       THEN /\ pc' = After("run_container_process")
            /\ UNCHANGED run_result
       ELSE Fail(Error("MissingSpecError", <<"Process">>))
    /\ UNCHANGED <<builder, pid_file_before,
                   cmanager, container, log, notify_listener, container_args, launched,
                   errors, cleanup_result, result, os>>

\* run_container: NotifyListener::new(&self.notify_path)?
run_container_notify ==
    /\ pc = "run_container_notify"
    /\ \E ok \in BOOLEAN :
        /\ log' = Append(log, Event("NotifyListener::new", ok))
        /\ IF ok
           THEN /\ notify_listener' = Some([path |-> builder.notify_path])
                /\ pc' = After("run_container_notify")
                /\ UNCHANGED run_result
           ELSE /\ Fail(Error("NotifySocket", <<>>))
                /\ UNCHANGED notify_listener
    /\ UNCHANGED <<builder, pid_file_before, cmanager, container, container_args, launched,
                   errors, cleanup_result, result, os>>

\* run_container: the OOM score adjustment, File::create then write_all
run_container_oom ==
    /\ pc = "run_container_oom"
    /\ LET process == Unwrap(builder.spec.process) IN
       IF IsSome(process.oom_score_adj)
       THEN \E outcome \in {"open_failed", "write_failed", "written"} :
              CASE outcome = "open_failed" ->
                     /\ log' = Append(log, Event("oom_score_adj open", FALSE))
                     /\ Fail(Error("OtherIO", <<"open">>))
                     /\ UNCHANGED oom_score_adj
                [] outcome = "write_failed" ->
                     /\ log' = Append(Append(log, Event("oom_score_adj open", TRUE)),
                                      Event("oom_score_adj write", FALSE))
                     /\ Fail(Error("OtherIO", <<"write">>))
                     /\ UNCHANGED oom_score_adj
                [] outcome = "written" ->
                     /\ log' = Append(Append(log, Event("oom_score_adj open", TRUE)),
                                      Event("oom_score_adj write", TRUE))
                     /\ oom_score_adj' = Some(to_string(Unwrap(process.oom_score_adj)))
                     /\ pc' = After("run_container_oom")
                     /\ UNCHANGED run_result
       ELSE /\ pc' = After("run_container_oom")
            /\ UNCHANGED <<log, run_result, oom_score_adj>>
    /\ UNCHANGED <<builder, pid_file_before,
                   cmanager, container, notify_listener, container_args, launched,
                   errors, cleanup_result, result, pid_file, dumpable, saved,
                   root_exists, cgroup_exists, resctrl_exists>>

\* run_container: prctl::set_dumpable(false) when namespaces are declared
run_container_dumpable ==
    /\ pc = "run_container_dumpable"
    /\ IF dumpable_guard(Unwrap(builder.spec.linux))
       THEN \E ok \in BOOLEAN :
              /\ log' = Append(log, Event("set_dumpable", ok))
              /\ IF ok
                 THEN /\ dumpable' = FALSE
                      /\ pc' = After("run_container_dumpable")
                      /\ UNCHANGED run_result
                 ELSE /\ Fail(Error("Other", <<"error in setting dumpable to false">>))
                      /\ UNCHANGED dumpable
       ELSE /\ pc' = After("run_container_dumpable")
            /\ UNCHANGED <<log, run_result, dumpable>>
    /\ UNCHANGED <<builder, pid_file_before,
                   cmanager, container, notify_listener, container_args, launched,
                   errors, cleanup_result, result, pid_file, oom_score_adj, saved,
                   root_exists, cgroup_exists, resctrl_exists>>

\* run_container: ContainerArgs is assembled and handed to
\* container_main_process
run_container_launch ==
    /\ pc = "run_container_launch"
    /\ LET args == [container_type |-> builder.container_type,
                    spec |-> builder.spec,
                    notify_listener |-> Unwrap(notify_listener),
                    container |-> container,
                    user_ns_config |-> builder.user_ns_config,
                    cgroup_config |-> run_cgroup_config(builder)] IN
       /\ container_args' = Some(args)
       /\ \/ \E init_pid \in Pids, need_to_clean_up_intel_rdt_dir \in BOOLEAN :
               /\ log' = Append(log, Event("container_main_process", TRUE))
               /\ launched' = Some([init_pid |-> init_pid,
                                    need_to_clean_up_intel_rdt_dir |->
                                        need_to_clean_up_intel_rdt_dir])
               /\ cgroup_exists' = TRUE
               /\ resctrl_exists' = (resctrl_exists \/ need_to_clean_up_intel_rdt_dir)
               /\ pc' = After("run_container_launch")
               /\ UNCHANGED run_result
          \/ \E partial \in BOOLEAN :
               /\ log' = Append(log, Event("container_main_process", FALSE))
               /\ cgroup_exists' = (cgroup_exists \/ partial)
               /\ Fail(Error("MainProcess", <<>>))
               /\ UNCHANGED <<launched, resctrl_exists>>
    /\ notify_listener' = None
    /\ UNCHANGED <<builder, pid_file_before,
                   cmanager, container, errors, cleanup_result, result, pid_file,
                   oom_score_adj, dumpable, saved, root_exists>>

\* std::fs::write(path, text) is File::create(path)?.write_all(text): the
\* outcomes are [ok, content of the file afterwards].  A failed open leaves
\* the file as it was; once the open succeeded the file exists and is
\* truncated, and a failed write_all leaves a proper prefix of text in it.
fs_write(before, text) ==
    {[ok |-> TRUE, content |-> Some(text)], [ok |-> FALSE, content |-> before]}
        \cup {[ok |-> FALSE, content |-> Some(SubSeq(text, 1, k))] : k \in 0..(Len(text) - 1)}

\* variant: a failed pid-file write is logged but not propagated
run_container_pid_file_error_ignored ==
    /\ pc = "run_container_pid_file"
    /\ IF IsSome(builder.pid_file)
       THEN \E w \in fs_write(pid_file, to_string(Unwrap(launched).init_pid)) :
              /\ log' = Append(log, Event("pid_file write", w.ok))
              /\ pid_file' = w.content
       ELSE UNCHANGED <<log, pid_file>>
    /\ pc' = After("run_container_pid_file")
    /\ UNCHANGED <<builder, pid_file_before,
                   cmanager, container, notify_listener, container_args, launched,
                   run_result, errors, cleanup_result, result, oom_score_adj, dumpable,
                   saved, root_exists, cgroup_exists, resctrl_exists>>

\* run_container: fs::write(pid_file, format!("{init_pid}"))
run_container_pid_file ==
    /\ pc = "run_container_pid_file"
    /\ IF IsSome(builder.pid_file)
       THEN \E w \in fs_write(pid_file, to_string(Unwrap(launched).init_pid)) :
              /\ log' = Append(log, Event("pid_file write", w.ok))
              /\ pid_file' = w.content
              /\ IF w.ok
                 THEN /\ pc' = After("run_container_pid_file")
                      /\ UNCHANGED run_result
                 ELSE Fail(Error("OtherIO", <<"pid_file">>))
       ELSE /\ pc' = After("run_container_pid_file")
            /\ UNCHANGED <<log, run_result, pid_file>>
    /\ UNCHANGED <<builder, pid_file_before,
                   cmanager, container, notify_listener, container_args, launched,
                   errors, cleanup_result, result, oom_score_adj, dumpable, saved,
                   root_exists, cgroup_exists, resctrl_exists>>

\* Container::save: the in-memory record replaces the persisted one
save(c, persisted, ok) == IF ok THEN c ELSE persisted

\* run_container: the Container record is updated in memory, then saved
run_container_save ==
    /\ pc = "run_container_save"
    /\ IF IsSome(container)
       THEN LET c == container_update(Unwrap(container), Unwrap(launched).init_pid,
                                      Unwrap(launched).need_to_clean_up_intel_rdt_dir) IN
            \E ok \in BOOLEAN :
              /\ container' = Some(c)
              /\ log' = Append(log, Event("save", ok))
              /\ saved' = save(Some(c), saved, ok)
              /\ IF ok
                 THEN /\ pc' = After("run_container_save")
                      /\ UNCHANGED run_result
                 ELSE Fail(Error("Save", <<>>))
       ELSE /\ pc' = After("run_container_save")
            /\ UNCHANGED <<container, log, run_result, saved>>
    /\ UNCHANGED <<builder, pid_file_before,
                   cmanager, notify_listener, container_args, launched,
                   errors, cleanup_result, result, pid_file, oom_score_adj, dumpable,
                   root_exists, cgroup_exists, resctrl_exists>>

\* variant: the hook stage does not look at the container type
run_container_hooks_any_type ==
    /\ pc = "run_container_hooks"
    /\ IF IsSome(builder.spec.hooks)
       THEN \E ok \in BOOLEAN :
              /\ log' = Append(log, Event("run_hooks", ok))
              /\ run_result' = Some(IF ok THEN Ok(Unwrap(launched).init_pid)
                                          ELSE Err(Error("Hook", <<>>)))
       ELSE /\ run_result' = Some(Ok(Unwrap(launched).init_pid))
            /\ UNCHANGED log
    /\ pc' = "create_match"
    /\ UNCHANGED <<builder, pid_file_before,
                   cmanager, container, notify_listener, container_args, launched,
                   errors, cleanup_result, result, os>>

\* run_container: the create-runtime hooks, then Ok(init_pid)
run_container_hooks ==
    /\ pc = "run_container_hooks"
    /\ IF builder.container_type = "InitContainer" /\ IsSome(builder.spec.hooks)
       THEN \E ok \in BOOLEAN :
              /\ log' = Append(log, Event("run_hooks", ok))
              /\ run_result' = Some(IF ok THEN Ok(Unwrap(launched).init_pid)
                                          ELSE Err(Error("Hook", <<>>)))
       ELSE /\ run_result' = Some(Ok(Unwrap(launched).init_pid))
            /\ UNCHANGED log
    /\ pc' = "create_match"
    /\ UNCHANGED <<builder, pid_file_before,
                   cmanager, container, notify_listener, container_args, launched,
                   errors, cleanup_result, result, os>>

\* variant: run_container is called once more when it failed after the
\* launcher had succeeded
create_match_retry ==
    /\ pc = "create_match"
    /\ LET r == Unwrap(run_result) IN
       IF r.tag = "Ok"
       THEN /\ result' = Some(Ok(r.val))
            /\ pc' = "done"
            /\ UNCHANGED <<log, run_result>>
       ELSE IF Count("container_main_process") = 1 /\ LoggedOk("container_main_process")
       THEN /\ pc' = run_container_order[1]
            /\ run_result' = None
            /\ UNCHANGED <<log, result>>
       ELSE IF is_init_container(builder)
       THEN /\ log' = Append(log, Event("cleanup_container", TRUE))
            /\ pc' = "cleanup_container_linux"
            /\ UNCHANGED <<result, run_result>>
       ELSE /\ result' = Some(Err(CreateContainerError(r.val, None)))
            /\ pc' = "done"
            /\ UNCHANGED <<log, run_result>>
    /\ UNCHANGED <<builder, pid_file_before,
                   cmanager, container, notify_listener, container_args, launched,
                   errors, cleanup_result, os>>

\* create(): the match on run_container's result
create_match ==
    /\ pc = "create_match"
    /\ LET r == Unwrap(run_result) IN
       IF r.tag = "Ok"
       THEN /\ result' = Some(Ok(r.val))
            /\ pc' = "done"
            /\ UNCHANGED log
       ELSE IF is_init_container(builder)
       THEN /\ log' = Append(log, Event("cleanup_container", TRUE))
            /\ pc' = "cleanup_container_linux"
            /\ UNCHANGED result
       ELSE /\ result' = Some(Err(CreateContainerError(r.val, None)))
            /\ pc' = "done"
            /\ UNCHANGED log
    /\ UNCHANGED <<builder, pid_file_before,
                   cmanager, container, notify_listener, container_args, launched,
                   run_result, errors, cleanup_result, os>>

\* cleanup_container: the Linux section is required
cleanup_container_linux ==
    /\ pc = "cleanup_container_linux"
    /\ IF IsSome(builder.spec.linux)
       THEN /\ pc' = "cleanup_container_cmanager"
            /\ UNCHANGED cleanup_result
       ELSE /\ cleanup_result' = Some(Err(Error("MissingSpecError", <<"Linux">>)))
            /\ pc' = "create_return"
    /\ UNCHANGED <<builder, pid_file_before,
                   cmanager, container, log, notify_listener, container_args, launched,
                   run_result, errors, result, os>>

\* cleanup_container: create_cgroup_manager(CgroupConfig {..})?
cleanup_container_cmanager ==
    /\ pc = "cleanup_container_cmanager"
    /\ \E ok \in BOOLEAN :
        /\ log' = Append(log, Event("create_cgroup_manager", ok))
        /\ IF ok
           THEN /\ cmanager' = Some(cleanup_cgroup_config(builder))
                /\ pc' = "cleanup_container_remove"
                /\ UNCHANGED cleanup_result
           ELSE /\ cleanup_result' = Some(Err(Error("CgroupManager", <<>>)))
                /\ pc' = "create_return"
                /\ UNCHANGED cmanager
    /\ UNCHANGED <<builder, pid_file_before,
                   container, notify_listener, container_args, launched,
                   run_result, errors, result, os>>

\* cleanup_container: cmanager.remove()
cleanup_container_remove ==
    /\ pc = "cleanup_container_remove"
    /\ \E ok \in BOOLEAN :
        /\ log' = Append(log, Event("cmanager.remove", ok))
        /\ IF ok
           THEN /\ cgroup_exists' = FALSE
                /\ UNCHANGED errors
           ELSE /\ errors' = Append(errors, "cgroup")
                /\ UNCHANGED cgroup_exists
    /\ pc' = "cleanup_container_resctrl"
    /\ UNCHANGED <<builder, pid_file_before,
                   cmanager, container, notify_listener, container_args, launched,
                   run_result, cleanup_result, result, pid_file, oom_score_adj, dumpable,
                   saved, root_exists, resctrl_exists>>

\* cleanup_container: delete_resctrl_subdirectory(container.id())
cleanup_container_resctrl ==
    /\ pc = "cleanup_container_resctrl"
    /\ IF IsSome(container)
          /\ Unwrap(container).clean_up_intel_rdt_subdirectory = Some(TRUE)
       THEN \E ok \in BOOLEAN :
              /\ log' = Append(log, Event("delete_resctrl_subdirectory", ok))
              /\ IF ok
                 THEN /\ resctrl_exists' = FALSE
                      /\ UNCHANGED errors
                 ELSE /\ errors' = Append(errors, "resctrl")
                      /\ UNCHANGED resctrl_exists
       ELSE UNCHANGED <<log, errors, resctrl_exists>>
    /\ pc' = "cleanup_container_root"
    /\ UNCHANGED <<builder, pid_file_before,
                   cmanager, container, notify_listener, container_args, launched,
                   run_result, cleanup_result, result, pid_file, oom_score_adj, dumpable,
                   saved, root_exists, cgroup_exists>>

\* cleanup_container: fs::remove_dir_all(&container.root)
cleanup_container_root ==
    /\ pc = "cleanup_container_root"
    /\ IF IsSome(container) /\ root_exists
       THEN \E ok \in BOOLEAN :
              /\ log' = Append(log, Event("remove_dir_all", ok))
              /\ IF ok
                 THEN /\ root_exists' = FALSE
                      /\ UNCHANGED errors
                 ELSE /\ errors' = Append(errors, "root")
                      /\ UNCHANGED root_exists
       ELSE UNCHANGED <<log, errors, root_exists>>
    /\ pc' = "cleanup_container_return"
    /\ UNCHANGED <<builder, pid_file_before,
                   cmanager, container, notify_listener, container_args, launched,
                   run_result, cleanup_result, result, pid_file, oom_score_adj, dumpable,
                   saved, cgroup_exists, resctrl_exists>>

\* errors.join(";")
RECURSIVE join(_, _)
join(es, sep) ==
    IF Len(es) = 0 THEN <<>>
    ELSE IF Len(es) = 1 THEN es
    ELSE <<Head(es), sep>> \o join(Tail(es), sep)

\* variant: only the first recorded error is reported
cleanup_container_return_first_error ==
    /\ pc = "cleanup_container_return"
    /\ cleanup_result' =
         Some(IF errors # <<>>
              THEN Err(Error("Other", <<"failed to cleanup container: ", Head(errors)>>))
              ELSE Ok(<<>>))
    /\ pc' = "create_return"
    /\ UNCHANGED <<builder, pid_file_before,
                   cmanager, container, log, notify_listener, container_args,
                   launched, run_result, errors, result, os>>

\* cleanup_container: the aggregated result
cleanup_container_return ==
    /\ pc = "cleanup_container_return"
    /\ cleanup_result' =
         Some(IF errors # <<>>
              THEN Err(Error("Other", <<"failed to cleanup container: ">> \o join(errors, ";")))
              ELSE Ok(<<>>))
    /\ pc' = "create_return"
    /\ UNCHANGED <<builder, pid_file_before,
                   cmanager, container, log, notify_listener, container_args, launched,
                   run_result, errors, result, os>>

\* Result::err()
err(r) == IF r.tag = "Err" THEN Some(r.val) ELSE None

\* variant: a cleanup error is returned in place of the forward error
create_return_cleanup_error_only ==
    /\ pc = "create_return"
    /\ LET outer == Unwrap(run_result).val
           cleanup_err == err(Unwrap(cleanup_result)) IN
       result' = Some(Err(IF IsSome(cleanup_err)
                          THEN CreateContainerError(Unwrap(cleanup_err), None)
                          ELSE CreateContainerError(outer, None)))
    /\ pc' = "done"
    /\ UNCHANGED <<builder, pid_file_before,
                   cmanager, container, log, notify_listener, container_args,
                   launched, run_result, errors, cleanup_result, os>>

\* create(): Err(CreateContainerError::new(outer, cleanup_err))
create_return ==
    /\ pc = "create_return"
    /\ result' = Some(Err(CreateContainerError(Unwrap(run_result).val,
                                               err(Unwrap(cleanup_result)))))
    /\ pc' = "done"
    /\ UNCHANGED <<builder, pid_file_before,
                   cmanager, container, log, notify_listener, container_args, launched,
                   run_result, errors, cleanup_result, os>>

Next ==
    \/ create
    \/ run_container_linux
    \/ run_container_process
    \/ run_container_notify
    \/ run_container_oom
    \/ run_container_dumpable
    \/ run_container_launch
    \/ run_container_pid_file
    \/ run_container_save
    \/ run_container_hooks
    \/ create_match
    \/ cleanup_container_linux
    \/ cleanup_container_cmanager
    \/ cleanup_container_remove
    \/ cleanup_container_resctrl
    \/ cleanup_container_root
    \/ cleanup_container_return
    \/ create_return

Spec == Init /\ [][Next]_vars

TypeOK ==
    /\ builder \in Builders
    /\ pc \in {"create", "run_container_linux", "run_container_process",
               "run_container_notify", "run_container_oom", "run_container_dumpable",
               "run_container_launch", "run_container_pid_file", "run_container_save",
               "run_container_hooks", "create_match", "cleanup_container_linux",
               "cleanup_container_cmanager", "cleanup_container_remove",
               "cleanup_container_resctrl", "cleanup_container_root",
               "cleanup_container_return", "create_return", "done"}
    /\ dumpable \in BOOLEAN
    /\ root_exists \in BOOLEAN
    /\ cgroup_exists \in BOOLEAN
    /\ resctrl_exists \in BOOLEAN

\* ------------------------------------------------------------ properties
ForwardOps ==
    {"NotifyListener::new", "oom_score_adj open", "oom_score_adj write", "set_dumpable",
     "container_main_process", "pid_file write", "save", "run_hooks"}
RemovalOps == {"cmanager.remove", "delete_resctrl_subdirectory", "remove_dir_all"}
CleanupOps == RemovalOps \cup {"cleanup_container", "create_cgroup_manager"}

\* every call of a precedes every call of b
Before(a, b) ==
    \A i, j \in 1..Len(log) : (log[i].op = a /\ log[j].op = b) => i < j

IsInit == builder.container_type = "InitContainer"
ForwardFailed == IsSome(run_result) /\ Unwrap(run_result).tag = "Err"
Returned == pc = "done"

\* C1: when run_container fails, create() returns an error that carries the
\* forward error as its outer error; for an InitContainer it carries the
\* error of cleanup_container exactly when cleanup_container failed, for a
\* TenantContainer it carries no cleanup error; create() never returns Ok
\* after a forward failure.
C1_CombinedErrorKeepsOuter ==
    (Returned /\ ForwardFailed) =>
        /\ Unwrap(result).tag = "Err"
        /\ Unwrap(result).val.outer = Unwrap(run_result).val
        /\ IF IsInit
           THEN /\ IsSome(cleanup_result)
                /\ IsSome(Unwrap(result).val.cleanup)
                       <=> (Unwrap(cleanup_result).tag = "Err")
                /\ (Unwrap(cleanup_result).tag = "Err")
                       => Unwrap(Unwrap(result).val.cleanup) = Unwrap(cleanup_result).val
           ELSE /\ cleanup_result = None
                /\ Unwrap(result).val.cleanup = None

C1_Witness ==
    /\ Returned /\ ForwardFailed /\ IsInit
    /\ LoggedFail("container_main_process")
    /\ LoggedFail("remove_dir_all")
    /\ IsSome(Unwrap(result).val.cleanup)
    /\ Unwrap(result).val.outer.kind = "MainProcess"

\* C2: cleanup_container, and every removal it performs, runs only after a
\* failed forward sequence of an InitContainer, and then exactly once; a
\* TenantContainer failure and a successful create() run none of them.
C2_CleanupOnlyOnInitFailure ==
    /\ \A op \in CleanupOps : Count(op) <= 1
    /\ \A op \in CleanupOps : Logged(op) => (ForwardFailed /\ IsInit)
    /\ \A op \in RemovalOps \cup {"create_cgroup_manager"} :
           Logged(op) => Logged("cleanup_container")
    /\ Returned => (Count("cleanup_container") = (IF ForwardFailed /\ IsInit THEN 1 ELSE 0))

C2_Witness ==
    /\ Returned /\ ForwardFailed /\ ~IsInit
    /\ LoggedOk("container_main_process")
    /\ cgroup_exists
    /\ \A op \in CleanupOps : ~Logged(op)

\* C3: with the Linux or the process section missing, run_container returns
\* a MissingSpecError and has made no forward call: no listener, no OOM
\* write, no dumpable toggle, no launcher call, no pid file, no change or
\* save of the Container record, no hook.
C3_MissingSpecFailsBeforeSideEffects ==
    (builder.spec.linux = None \/ builder.spec.process = None) =>
        /\ \A op \in ForwardOps : ~Logged(op)
        /\ notify_listener = None /\ container_args = None /\ launched = None
        /\ pid_file = pid_file_before /\ oom_score_adj = None /\ dumpable
        /\ container = builder.container /\ saved = builder.container
        /\ IsSome(run_result) =>
               /\ Unwrap(run_result).tag = "Err"
               /\ Unwrap(run_result).val.kind = "MissingSpecError"

C3_Witness ==
    /\ Returned
    /\ IsSome(builder.spec.linux) /\ builder.spec.process = None
    /\ Unwrap(result).tag = "Err"
    /\ Unwrap(result).val.outer = Error("MissingSpecError", <<"Process">>)

NoRemovalFailed == \A op \in RemovalOps : ~LoggedFail(op)

\* C4: for an InitContainer with a Container handle, whatever forward step
\* failed, the rollback attempts the cgroup removal and, when the container
\* root exists, its removal; if no removal fails, the cgroup and the root
\* are gone when create() returns.
C4_RollbackFromEveryFailurePoint ==
    (Returned /\ ForwardFailed /\ IsInit /\ IsSome(builder.container)) =>
        /\ Logged("cmanager.remove")
        /\ root_exists => Logged("remove_dir_all")
        /\ NoRemovalFailed => (~cgroup_exists /\ ~root_exists)

\* C5: cleanup_container never runs after the Container record reached
\* Created, in memory or as persisted.
C5_NoCreatedThenRolledBack ==
    (Logged("cleanup_container") /\ IsSome(container)) =>
        /\ Unwrap(container).status # "Created"
        /\ Unwrap(saved).status # "Created"

\* C6: with a Container handle, the persisted record is written by at most
\* one save; it is either the record the builder started with or has
\* status Created, creator euid, the launcher's pid and the launcher's
\* resource-control flag all together; a persisted pid implies Created.
C6_SavePublishesAllFieldsTogether ==
    IsSome(builder.container) =>
        /\ Count("save") <= 1
        /\ IsSome(saved)
        /\ (saved # builder.container) <=> LoggedOk("save")
        /\ \/ saved = builder.container
           \/ /\ IsSome(launched)
              /\ Unwrap(saved).status = "Created"
              /\ Unwrap(saved).creator = Some(Euid)
              /\ Unwrap(saved).pid = Some(Unwrap(launched).init_pid)
              /\ Unwrap(saved).clean_up_intel_rdt_subdirectory
                     = Some(Unwrap(launched).need_to_clean_up_intel_rdt_dir)
        /\ IsSome(Unwrap(saved).pid) => Unwrap(saved).status = "Created"

C6_Witness ==
    /\ IsSome(builder.container)
    /\ LoggedOk("save")
    /\ saved # builder.container
    /\ IsSome(Unwrap(saved).pid)

\* C7: the pid file is written at most once, only when a path is
\* configured, and never in a create() that returns an error.
C7_PidFileOnlyOnSuccess ==
    /\ Count("pid_file write") <= 1
    /\ Logged("pid_file write") => IsSome(builder.pid_file)
    /\ (Returned /\ Unwrap(result).tag = "Err") =>
           (~LoggedOk("pid_file write") /\ pid_file = pid_file_before)

NamespacesDeclared ==
    /\ IsSome(builder.spec.linux)
    /\ IsSome(Unwrap(builder.spec.linux).namespaces)
    /\ Unwrap(Unwrap(builder.spec.linux).namespaces) >= 1

PastDumpable ==
    \/ pc = After("run_container_dumpable")
    \/ Logged("set_dumpable")
    \/ Logged("container_main_process")

\* C8: set_dumpable(false) is called exactly once when the spec declares at
\* least one namespace and the preceding steps succeeded, and never when
\* the namespace list is absent or empty.
C8_DumpableIffNamespaceDeclared ==
    /\ Count("set_dumpable") <= 1
    /\ ~NamespacesDeclared => ~Logged("set_dumpable")
    /\ (NamespacesDeclared /\ PastDumpable) => Count("set_dumpable") = 1

OomDeclared ==
    /\ IsSome(builder.spec.process)
    /\ IsSome(Unwrap(builder.spec.process).oom_score_adj)

\* C9: the OOM score is written exactly when the process section declares
\* oom_score_adj and the earlier steps succeeded; the write completes before
\* set_dumpable is called; after a failed open or write neither set_dumpable
\* nor the launcher is called.
C9_OomWriteBeforeDumpable ==
    /\ Logged("oom_score_adj open") => OomDeclared
    /\ Logged("oom_score_adj write") => LoggedOk("oom_score_adj open")
    /\ (OomDeclared /\ IsSome(builder.spec.linux) /\ LoggedOk("NotifyListener::new")
            /\ pc # "run_container_oom") => Logged("oom_score_adj open")
    /\ LoggedOk("oom_score_adj write") <=> IsSome(oom_score_adj)
    /\ Before("oom_score_adj open", "set_dumpable")
    /\ Before("oom_score_adj write", "set_dumpable")
    /\ (OomDeclared /\ Logged("set_dumpable")) => LoggedOk("oom_score_adj write")
    /\ (LoggedFail("oom_score_adj open") \/ LoggedFail("oom_score_adj write")) =>
           (~Logged("set_dumpable") /\ ~Logged("container_main_process"))

C9_Witness ==
    /\ OomDeclared
    /\ LoggedOk("oom_score_adj write")
    /\ oom_score_adj = Some(<<"-", "1">>)
    /\ LoggedOk("set_dumpable")
    /\ ~dumpable

\* C10: the NotifyListener is created, bound to notify_path, before the OOM
\* write, before set_dumpable and before the launcher call; the launcher is
\* called only after a successful creation and receives that listener.
C10_ListenerBeforeNamespaceEntry ==
    /\ Count("NotifyListener::new") <= 1
    /\ \A op \in {"oom_score_adj open", "oom_score_adj write", "set_dumpable",
                  "container_main_process"} :
           /\ Before("NotifyListener::new", op)
           /\ Logged(op) => LoggedOk("NotifyListener::new")
    /\ IsSome(notify_listener) => Unwrap(notify_listener).path = builder.notify_path
    /\ Logged("container_main_process") =>
           /\ IsSome(container_args)
           /\ Unwrap(container_args).notify_listener = [path |-> builder.notify_path]

C10_Witness ==
    /\ LoggedOk("NotifyListener::new")
    /\ LoggedOk("oom_score_adj write")
    /\ LoggedOk("set_dumpable")
    /\ Logged("container_main_process")
    /\ Unwrap(container_args).notify_listener.path = NotifyPath


\* C11 (as stated): the create-runtime hook stage runs at most once, only for
\* an InitContainer whose spec declares hooks, and only after the launcher
\* succeeded, the pid file (if configured) was written and the Container
\* state was successfully persisted, for builders with and without a
\* Container handle; a hook failure makes create() return an error.
C11_HooksOnlyAfterStatePersisted ==
    /\ Count("run_hooks") <= 1
    /\ Logged("run_hooks") =>
           /\ IsInit
           /\ IsSome(builder.spec.hooks)
           /\ LoggedOk("container_main_process")
           /\ IsSome(builder.pid_file) => (LoggedOk("pid_file write") /\ IsSome(pid_file))
           /\ LoggedOk("save")
    /\ \A op \in {"container_main_process", "pid_file write", "save"} :
           Before(op, "run_hooks")
    /\ (Returned /\ LoggedFail("run_hooks")) =>
           /\ Unwrap(result).tag = "Err"
           /\ Unwrap(result).val.outer.kind = "Hook"

\* C11 (amended): the create-runtime hook stage runs at most once, only for
\* an InitContainer whose spec declares hooks, and only after the launcher
\* succeeded and the pid file (if configured) was written; with a Container
\* handle it runs only after the record was saved as Created, without one it
\* runs although nothing was or is persisted; a hook failure makes create()
\* return an error.
C11_HooksOnceAfterPersist ==
    /\ Count("run_hooks") <= 1
    /\ Logged("run_hooks") =>
           /\ IsInit
           /\ IsSome(builder.spec.hooks)
           /\ LoggedOk("container_main_process")
           /\ IsSome(builder.pid_file) => (LoggedOk("pid_file write") /\ IsSome(pid_file))
           /\ IF IsSome(builder.container)
              THEN LoggedOk("save") /\ Unwrap(saved).status = "Created"
              ELSE ~Logged("save") /\ saved = None
    /\ \A op \in {"container_main_process", "pid_file write", "save"} :
           Before(op, "run_hooks")
    /\ (Returned /\ LoggedFail("run_hooks")) =>
           /\ Unwrap(result).tag = "Err"
           /\ Unwrap(result).val.outer.kind = "Hook"

C11_Witness ==
    /\ Returned
    /\ IsSome(builder.container)
    /\ LoggedOk("run_hooks")
    /\ LoggedOk("save")
    /\ Unwrap(saved).status = "Created"
    /\ LoggedOk("pid_file write")
    /\ Unwrap(result).tag = "Ok"

\* C11: the case the amendment is about is reachable: an InitContainer
\* builder without a Container handle whose hooks ran and whose create()
\* returned Ok with no save at all.
C11_HooksWithoutHandle ==
    /\ Returned
    /\ ~IsSome(builder.container)
    /\ LoggedOk("run_hooks")
    /\ ~Logged("save")
    /\ Unwrap(result).tag = "Ok"


\* C12: a failed rollback step never prevents the later rollback steps;
\* with a Container handle whose root exists, every cleanup_container
\* execution attempts the removal of the root.
C12_CleanupNeverFailFast ==
    IsSome(cleanup_result) =>
        /\ LoggedFail("create_cgroup_manager") => Logged("cmanager.remove")
        /\ (IsSome(container) /\ root_exists) => Logged("remove_dir_all")
        /\ (IsSome(container)
              /\ Unwrap(container).clean_up_intel_rdt_subdirectory = Some(TRUE)
              /\ resctrl_exists) => Logged("delete_resctrl_subdirectory")


\* the messages a cleanup error carries: the payload after the prefix, or
\* nothing for an error that is not the aggregated one
CleanupMessages ==
    LET r == Unwrap(cleanup_result) IN
    IF r.tag = "Err" /\ r.val.kind = "Other" THEN Tail(r.val.detail) ELSE <<>>

Occurrences(msgs, m) == Cardinality({i \in 1..Len(msgs) : msgs[i] = m})
Position(msgs, m) == CHOOSE i \in 1..Len(msgs) : msgs[i] = m

StepMessage ==
    [op \in RemovalOps |->
        CASE op = "cmanager.remove" -> "cgroup"
          [] op = "delete_resctrl_subdirectory" -> "resctrl"
          [] op = "remove_dir_all" -> "root"]

StepRank ==
    [op \in RemovalOps |->
        CASE op = "cmanager.remove" -> 1
          [] op = "delete_resctrl_subdirectory" -> 2
          [] op = "remove_dir_all" -> 3]

\* C13: cleanup_container returns Ok exactly when none of its steps failed;
\* otherwise its error carries the message of every failed removal step
\* once, in step order, and of no step that did not fail.
C13_CleanupErrorsJoinedInOrder ==
    IsSome(cleanup_result) =>
        /\ (Unwrap(cleanup_result).tag = "Ok") <=>
               /\ IsSome(builder.spec.linux)
               /\ \A op \in CleanupOps : ~LoggedFail(op)
        /\ (\E op \in RemovalOps : LoggedFail(op)) =>
               /\ Unwrap(cleanup_result).tag = "Err"
               /\ Unwrap(cleanup_result).val.kind = "Other"
               /\ Head(Unwrap(cleanup_result).val.detail) = "failed to cleanup container: "
        /\ \A op \in RemovalOps :
               Occurrences(CleanupMessages, StepMessage[op])
                   = (IF LoggedFail(op) THEN 1 ELSE 0)
        /\ \A a, b \in RemovalOps :
               (LoggedFail(a) /\ LoggedFail(b) /\ StepRank[a] < StepRank[b]) =>
                   Position(CleanupMessages, StepMessage[a])
                       < Position(CleanupMessages, StepMessage[b])

C13_Witness ==
    /\ IsSome(cleanup_result)
    /\ \A op \in RemovalOps : LoggedFail(op)
    /\ CleanupMessages = <<"cgroup", ";", "resctrl", ";", "root">>


\* reading a decimal text back as a number
DigitValue(c) == CHOOSE d \in 0..9 : DigitChars[d + 1] = c

RECURSIVE ParseDecimal(_)
ParseDecimal(text) ==
    IF Len(text) = 0 THEN 0
    ELSE ParseDecimal(SubSeq(text, 1, Len(text) - 1)) * 10 + DigitValue(text[Len(text)])

IsDecimal(text) ==
    /\ Len(text) >= 1
    /\ \A i \in 1..Len(text) : \E d \in 0..9 : DigitChars[d + 1] = text[i]

\* C14: on a successful create() the returned pid is the launcher's, the
\* pid file (if configured) holds its decimal text and reads back as that
\* pid, and the persisted record (if present) holds that pid and the
\* launcher's resource-control flag.
C14_PidPublishedConsistently ==
    (Returned /\ Unwrap(result).tag = "Ok") =>
        /\ IsSome(launched)
        /\ LoggedOk("container_main_process")
        /\ Unwrap(result).val = Unwrap(launched).init_pid
        /\ IF IsSome(builder.pid_file)
           THEN /\ IsSome(pid_file)
                /\ IsDecimal(Unwrap(pid_file))
                /\ ParseDecimal(Unwrap(pid_file)) = Unwrap(launched).init_pid
           ELSE pid_file = pid_file_before
        /\ IsSome(builder.container) =>
               /\ Unwrap(saved).pid = Some(Unwrap(launched).init_pid)
               /\ Unwrap(saved).clean_up_intel_rdt_subdirectory
                      = Some(Unwrap(launched).need_to_clean_up_intel_rdt_dir)

C14_Witness ==
    /\ Returned
    /\ Unwrap(result).tag = "Ok"
    /\ Unwrap(result).val = 10
    /\ pid_file = Some(<<"1", "0">>)
    /\ IsSome(builder.container)
    /\ Unwrap(saved).pid = Some(10)
    /\ Unwrap(saved).clean_up_intel_rdt_subdirectory = Some(TRUE)


\* C15: a failed forward step is the last forward step of the call; after a
\* launcher failure the error is MainProcess, no pid file is written, the
\* Container record is neither changed nor saved and no hook runs; pid and
\* Created are persisted only after the launcher returned a pid.
C15_ForwardFailureShortCircuits ==
    /\ \A i, j \in 1..Len(log) :
           (log[i].op \in ForwardOps /\ ~log[i].ok /\ i < j) => log[j].op \notin ForwardOps
    /\ (\E op \in ForwardOps : LoggedFail(op)) => ForwardFailed
    /\ ForwardFailed =>
           pc \notin {run_container_order[k] : k \in 1..Len(run_container_order)}
    /\ LoggedFail("container_main_process") =>
           /\ Unwrap(run_result).val.kind = "MainProcess"
           /\ launched = None
           /\ \A op \in {"pid_file write", "save", "run_hooks"} : ~Logged(op)
           /\ pid_file = pid_file_before
           /\ container = builder.container
           /\ saved = builder.container
    /\ (IsSome(saved) /\ (IsSome(Unwrap(saved).pid) \/ Unwrap(saved).status = "Created")) =>
           /\ LoggedOk("container_main_process")
           /\ Unwrap(saved).pid = Some(Unwrap(launched).init_pid)

C15_Witness ==
    /\ Returned
    /\ LoggedFail("container_main_process")
    /\ IsInit
    /\ IsSome(builder.pid_file)
    /\ IsSome(builder.container)
    /\ IsSome(builder.spec.hooks)
    /\ Unwrap(result).val.outer.kind = "MainProcess"


\* C16: for an InitContainer with a Container handle, when the launcher
\* returned the resource-control flag true and a later forward step failed,
\* the rollback attempts the deletion of the resctrl subdirectory.
C16_ResctrlDeletionAttempted ==
    (Returned /\ IsInit /\ IsSome(builder.container) /\ ForwardFailed
       /\ IsSome(launched) /\ Unwrap(launched).need_to_clean_up_intel_rdt_dir) =>
        Logged("delete_resctrl_subdirectory")

\* the same, in the executions where cleanup_container got past its two
\* early returns: the subdirectory is left without a deletion attempt
C16_ResctrlLeftBehind ==
    /\ Returned /\ IsInit /\ IsSome(builder.container)
    /\ LoggedFail("pid_file write")
    /\ Unwrap(launched).need_to_clean_up_intel_rdt_dir
    /\ Logged("cmanager.remove")
    /\ ~Logged("delete_resctrl_subdirectory")
    /\ resctrl_exists


\* C17: within one create() every step is attempted at most once, whatever
\* fails: listener creation, OOM write, set_dumpable, launcher, pid-file
\* write, save, hooks, cgroup removal, resctrl deletion, root removal; a
\* failure after the launcher succeeded never launches a second process.
C17_EveryStepAtMostOnce ==
    /\ \A op \in ForwardOps \cup CleanupOps : Count(op) <= 1
    /\ Len(log) <= Cardinality(ForwardOps \cup CleanupOps)
    /\ (LoggedOk("container_main_process") /\ ForwardFailed) =>
           Count("container_main_process") = 1

C17_Witness ==
    /\ Returned
    /\ LoggedOk("container_main_process")
    /\ LoggedFail("run_hooks")
    /\ Count("container_main_process") = 1
    /\ Logged("cmanager.remove")
    /\ Logged("delete_resctrl_subdirectory")
    /\ Logged("remove_dir_all")


\* C18: the CgroupConfig cleanup_container builds its manager from equals
\* the one run_container handed to the launcher; in both, systemd_cgroup is
\* true exactly when use_systemd is set or a user namespace is configured,
\* the path comes from the spec and the container id, and the name is the
\* container id.
C18_SameCgroupConfigOnRollback ==
    LET Expected(cfg) ==
            /\ cfg.systemd_cgroup
                   <=> (builder.use_systemd \/ builder.user_ns_config # None)
            /\ cfg.container_name = builder.container_id
            /\ cfg.cgroup_path
                   = get_cgroup_path(Unwrap(builder.spec.linux).cgroups_path,
                                     builder.container_id)
    IN  /\ IsSome(container_args) => Expected(Unwrap(container_args).cgroup_config)
        /\ IsSome(cmanager) => Expected(Unwrap(cmanager))
        /\ (IsSome(container_args) /\ IsSome(cmanager)) =>
               Unwrap(cmanager) = Unwrap(container_args).cgroup_config
        /\ LoggedOk("create_cgroup_manager") => IsSome(cmanager)

C18_Witness ==
    /\ IsSome(container_args)
    /\ IsSome(cmanager)
    /\ ~builder.use_systemd
    /\ IsSome(builder.user_ns_config)
    /\ Unwrap(cmanager).systemd_cgroup
    /\ Logged("cmanager.remove")

====
